---- MODULE Spec2Model ----
(***************************************************************************)
(* neonwire: a two-party UDP chat (src/main.go).  The model follows the    *)
(* bubbletea program of main.go: the model struct, initialModel, Init,     *)
(* listenForMessages, Update, and the runtime loop that feeds Update.      *)
(*                                                                         *)
(* Go strings are sequences of one-character tokens.  "xFF" stands for a   *)
(* byte that is not valid UTF-8 and "uFFFD" for the rune U+FFFD.  Wire      *)
(* data (the []byte of a datagram) is a sequence of tokens too: the JSON   *)
(* punctuation, the member names, and the characters of string bodies.     *)
(***************************************************************************)
EXTENDS Integers, Sequences, FiniteSets, TLC

\* ---------------------------------------------------------------- bounds
MaxInput == 2       \* most characters typed into the textarea
MaxLines == 2       \* most lines in the transcript
MaxProbe == 2       \* longest sender/text of a codec probe message

\* ------------------------------------------------------ program constants
port      == 9999   \* main.go:20
CharLimit == 280    \* main.go:90
BufSize   == 1024   \* main.go:131

\* ------------------------------------------------------------ time.Time
\* An instant is a day and a second of that day, each an index into the
\* dates and times of day below; the zero Time is day 0, second 0.  Zones
\* and the monotonic reading are left out: every Time is compared as an
\* instant.
DateStr == <<"0001-01-01", "2024-01-01", "2024-01-02">>
ClockStr == <<"00:00:00", "00:00:01">>

Days == {i - 1 : i \in 1..Len(DateStr)}
Secs == {i - 1 : i \in 1..Len(ClockStr)}
Times == [day : Days, sec : Secs]
ZeroTime == [day |-> 0, sec |-> 0]

\* The instant time.Now() returns: the clock does not advance within the
\* sessions modelled here.
Now == [day |-> 2, sec |-> 1]

\* Timestamp.Format("15:04:05"): the time of day only, the date is dropped.
FormatClock(t) == ClockStr[t.sec + 1]

\* ------------------------------------------------------ strings.TrimSpace
IsSpace(c) == c = " "

RECURSIVE TrimLeft(_)
TrimLeft(s) == IF s # <<>> /\ IsSpace(Head(s)) THEN TrimLeft(Tail(s)) ELSE s

RECURSIVE TrimRight(_)
TrimRight(s) ==
    IF s # <<>> /\ IsSpace(s[Len(s)]) THEN TrimRight(SubSeq(s, 1, Len(s) - 1)) ELSE s

TrimSpaceIdentity(s) == s

TrimSpace(s) == TrimRight(TrimLeft(s))

\* ------------------------------------------------------------ msgPacket
msgPacket(sender, text, ts) == [Sender |-> sender, Text |-> text, Timestamp |-> ts]
ZeroPacket == msgPacket(<<>>, <<>>, ZeroTime)

\* ---------------------------------------------------------- json.Marshal
\* A string is written between quotes; a quote or a backslash is escaped
\* with a backslash, and a byte that is not valid UTF-8 is written as the
\* escape backslash-ufffd (encoding/json coerces strings to valid UTF-8).
EscapeChar(c) ==
    IF c = "\"" THEN <<"\\", "\"">>
    ELSE IF c = "\\" THEN <<"\\", "\\">>
    ELSE IF c = "xFF" THEN <<"\\", "ufffd">>
    ELSE <<c>>

RECURSIVE EscapeBody(_)
EscapeBody(s) == IF s = <<>> THEN <<>> ELSE EscapeChar(Head(s)) \o EscapeBody(Tail(s))

MarshalStringRaw(s) == <<"\"">> \o s \o <<"\"">>

MarshalString(s) == <<"\"">> \o EscapeBody(s) \o <<"\"">>

\* Time.MarshalJSON: a quoted RFC 3339 string.
MarshalTime(t) == <<"\"", DateStr[t.day + 1], "T", ClockStr[t.sec + 1], "Z", "\"">>

MarshalTagsSwapped(p) ==
    <<"{">> \o <<"\"", "sender", "\"", ":">> \o MarshalString(p.Text)
    \o <<",", "\"", "text", "\"", ":">> \o MarshalString(p.Sender)
    \o <<",", "\"", "timestamp", "\"", ":">> \o MarshalTime(p.Timestamp)
    \o <<"}">>

\* json.Marshal(packet) with the struct tags of msgPacket.
Marshal(p) ==
    <<"{">> \o <<"\"", "sender", "\"", ":">> \o MarshalString(p.Sender)
    \o <<",", "\"", "text", "\"", ":">> \o MarshalString(p.Text)
    \o <<",", "\"", "timestamp", "\"", ":">> \o MarshalTime(p.Timestamp)
    \o <<"}">>

\* -------------------------------------------------------- json.Unmarshal
\* The decoder reads the JSON subset made of null and of objects whose
\* members are strings or null, with spaces between tokens; any other
\* input is an error.  "sp1000" is a run of 1000 spaces.
IsWs(c) == c \in {" ", "sp1000"}

RECURSIVE SkipWs(_)
SkipWs(w) == IF w # <<>> /\ IsWs(Head(w)) THEN SkipWs(Tail(w)) ELSE w

ParseFail == [ok |-> FALSE, null |-> FALSE, val |-> <<>>, rest |-> <<>>]

RECURSIVE StrBody(_, _)
StrBody(w, acc) ==
    IF w = <<>> THEN ParseFail
    ELSE IF Head(w) = "\"" THEN [ok |-> TRUE, null |-> FALSE, val |-> acc, rest |-> Tail(w)]
    ELSE IF Head(w) = "\\" THEN
        IF Len(w) < 2 THEN ParseFail
        ELSE IF w[2] \in {"\"", "\\"} THEN StrBody(Tail(Tail(w)), Append(acc, w[2]))
        ELSE IF w[2] = "ufffd" THEN StrBody(Tail(Tail(w)), Append(acc, "uFFFD"))
        ELSE ParseFail
    ELSE IF Head(w) = "xFF" THEN StrBody(Tail(w), Append(acc, "uFFFD"))
    ELSE IF Head(w) = "sp1000" THEN ParseFail
    ELSE StrBody(Tail(w), Append(acc, Head(w)))

ParseString(w) == IF w # <<>> /\ Head(w) = "\"" THEN StrBody(Tail(w), <<>>) ELSE ParseFail

\* A member value: a string or null.
ParseValue(w) ==
    IF w # <<>> /\ Head(w) = "null"
    THEN [ok |-> TRUE, null |-> TRUE, val |-> <<>>, rest |-> Tail(w)]
    ELSE ParseString(w)

MembersFail == [ok |-> FALSE, members |-> <<>>, rest |-> <<>>]

\* The members after "{" or after ",": name, colon, value, then "," or "}".
RECURSIVE ParseMembers(_, _)
ParseMembers(w, acc) ==
    LET k == ParseString(SkipWs(w)) IN
    IF ~k.ok THEN MembersFail
    ELSE LET c == SkipWs(k.rest) IN
    IF c = <<>> \/ Head(c) # ":" THEN MembersFail
    ELSE LET v == ParseValue(SkipWs(Tail(c))) IN
    IF ~v.ok THEN MembersFail
    ELSE LET a == Append(acc, [key |-> k.val, null |-> v.null, val |-> v.val])
             r == SkipWs(v.rest) IN
    IF r = <<>> THEN MembersFail
    ELSE IF Head(r) = "}" THEN [ok |-> TRUE, members |-> a, rest |-> Tail(r)]
    ELSE IF Head(r) = "," THEN ParseMembers(Tail(r), a)
    ELSE MembersFail

\* The top-level value, which must be followed by nothing but spaces.
ParseTop(data) ==
    LET w == SkipWs(data) IN
    IF w = <<>> THEN MembersFail
    ELSE IF Head(w) = "null" THEN
        IF SkipWs(Tail(w)) = <<>> THEN [ok |-> TRUE, members |-> <<>>, rest |-> <<>>]
        ELSE MembersFail
    ELSE IF Head(w) = "{" THEN
        LET b == SkipWs(Tail(w)) IN
        IF b # <<>> /\ Head(b) = "}" THEN
            IF SkipWs(Tail(b)) = <<>> THEN [ok |-> TRUE, members |-> <<>>, rest |-> <<>>]
            ELSE MembersFail
        ELSE LET pm == ParseMembers(b, <<>>) IN
            IF pm.ok /\ SkipWs(pm.rest) = <<>> THEN pm ELSE MembersFail
    ELSE MembersFail

\* Time.UnmarshalJSON on the body of a string.
IsRFC3339(s) ==
    /\ Len(s) = 4
    /\ \E d \in Days : s[1] = DateStr[d + 1]
    /\ s[2] = "T"
    /\ \E c \in Secs : s[3] = ClockStr[c + 1]
    /\ s[4] = "Z"

ParseTime(s) ==
    [day |-> CHOOSE d \in Days : s[1] = DateStr[d + 1],
     sec |-> CHOOSE c \in Secs : s[3] = ClockStr[c + 1]]

\* The members are stored in order into the packet: a later member of the
\* same name overwrites, null leaves the field alone, other names are
\* ignored, and a timestamp that is not RFC 3339 is an error.
RECURSIVE StoreMembers(_, _)
StoreMembers(ms, p) ==
    IF ms = <<>> THEN [err |-> FALSE, packet |-> p]
    ELSE LET mb == Head(ms) IN
        IF mb.null THEN StoreMembers(Tail(ms), p)
        ELSE IF mb.key = <<"sender">> THEN StoreMembers(Tail(ms), [p EXCEPT !.Sender = mb.val])
        ELSE IF mb.key = <<"text">> THEN StoreMembers(Tail(ms), [p EXCEPT !.Text = mb.val])
        ELSE IF mb.key = <<"timestamp">> THEN
            IF IsRFC3339(mb.val)
            THEN StoreMembers(Tail(ms), [p EXCEPT !.Timestamp = ParseTime(mb.val)])
            ELSE [err |-> TRUE, packet |-> p]
        ELSE StoreMembers(Tail(ms), p)

\* json.Unmarshal(data, &packet) into a zero packet.
Unmarshal(data) ==
    LET t == ParseTop(data) IN
    IF t.ok THEN StoreMembers(t.members, ZeroPacket)
    ELSE [err |-> TRUE, packet |-> ZeroPacket]

\* ------------------------------------------------------------ addresses
IPs == {"10.0.0.2", "10.0.0.3"}

\* The command lines: a username and a remote address.
Args == {<<<<"a">>, "peer.example">>, <<<<"xFF">>, "10.0.0.2">>, <<<<"a">>, "no.such.host">>}

Itoa(n) == IF n = port THEN "9999" ELSE "0"
Atoi(s) == IF s = "9999" THEN port ELSE 0

\* fmt.Sprintf("%s:%d", remoteAddr, port)
HostPort(host, p) == <<host, ":", Itoa(p)>>

\* (*net.UDPAddr).String()
AddrString(a) == <<a.IP, ":", Itoa(a.Port)>>

NilAddr == [IP |-> "nil", Port |-> 0]

\* The addresses a host may resolve to: an IP literal is itself, the name
\* peer.example has two address records, any other name has none.
LookupIP(host) ==
    IF host \in IPs THEN {host}
    ELSE IF host = "peer.example" THEN IPs
    ELSE {}

\* net.ResolveUDPAddr("udp", s): the possible results for the string s.
ResolveUDPAddr(s) ==
    IF Len(s) # 3 \/ LookupIP(s[1]) = {}
    THEN {[err |-> TRUE, addr |-> NilAddr]}
    ELSE {[err |-> FALSE, addr |-> [IP |-> ip, Port |-> Atoi(s[3])]] : ip \in LookupIP(s[1])}

\* net.ListenUDP("udp", &net.UDPAddr{Port: port}): the socket, or an error
\* when the port cannot be bound.
ListenUDP == {[err |-> FALSE, conn |-> "udp:9999"], [err |-> TRUE, conn |-> "nil"]}

\* ----------------------------------------------------------- transcript
Render(style, s) == [style |-> style, s |-> s]

LineTextFirst(userStyle, packet) ==
    <<Render("timestampStyle", FormatClock(packet.Timestamp)),
      Render(userStyle, packet.Text),
      Render("messageStyle", packet.Sender)>>

\* fmt.Sprintf("%s %s: %s", ts, user, msgText) with the three styles.
Line(userStyle, packet) ==
    <<Render("timestampStyle", FormatClock(packet.Timestamp)),
      Render(userStyle, packet.Sender),
      Render("messageStyle", packet.Text)>>

AppendLineFront(messages, line) == <<line>> \o messages

AppendLineSorted(messages, line) ==
    LET idx(l) == CHOOSE i \in 1..Len(ClockStr) : ClockStr[i] = l[1].s
        k == Cardinality({j \in 1..Len(messages) : idx(messages[j]) <= idx(line)})
    IN SubSeq(messages, 1, k) \o <<line>> \o SubSeq(messages, k + 1, Len(messages))

\* m.messages = append(m.messages, line)
AppendLine(messages, line) == Append(messages, line)

\* ---------------------------------------------------------------- state
VARIABLES
    m,        \* the model struct: textarea, viewport, messages, username, remoteAddr, conn, err
    armed,    \* number of listenForMessages commands blocked in ReadFromUDP
    msgs,     \* messages returned by commands and not yet taken by the event loop
    sent,     \* the WriteToUDP calls made so far: data and address
    sendErr,  \* whether the last WriteToUDP call returned an error
    status,   \* "running", or the exit code of the process
    last,     \* the case of Update's switch taken for the most recent message
    handled,  \* the submits that sent and the datagrams that decoded, in the order Update took them
    probe     \* the message, wire data and decoded packet of the codec check

vars == <<m, armed, msgs, sent, sendErr, status, last, handled, probe>>

NoProbe == [stage |-> "none", in |-> ZeroPacket, wire |-> <<>>, out |-> ZeroPacket, err |-> FALSE]

ZeroTextarea == [value |-> <<>>, focus |-> FALSE]

\* model{err: err}: every other field has its zero value.
ErrModel(e) ==
    [textarea |-> ZeroTextarea, viewport |-> <<>>, messages |-> <<>>,
     username |-> <<>>, remoteAddr |-> <<>>, conn |-> "nil", err |-> e]

initialModelKeepHost(username, remoteAddr, r, l) ==
    IF r.err THEN ErrModel("resolve")
    ELSE IF l.err THEN ErrModel("bind")
    ELSE [textarea |-> [value |-> <<>>, focus |-> TRUE],
          viewport |-> <<"Connected. Waiting for messages...">>,
          messages |-> <<>>,
          username |-> username,
          remoteAddr |-> HostPort(remoteAddr, port),
          conn |-> l.conn,
          err |-> "nil"]

\* initialModel(username, remoteAddr), given the results r of the resolution
\* and l of the bind.
initialModel(username, remoteAddr, r, l) ==
    IF r.err THEN ErrModel("resolve")
    ELSE IF l.err THEN ErrModel("bind")
    ELSE [textarea |-> [value |-> <<>>, focus |-> TRUE],
          viewport |-> <<"Connected. Waiting for messages...">>,
          messages |-> <<>>,
          username |-> username,
          remoteAddr |-> AddrString(r.addr),
          conn |-> l.conn,
          err |-> "nil"]

\* ------------------------------------------------------------- messages
NoData == <<>>
KeyMsg(key, rune) == [type |-> "KeyMsg", key |-> key, rune |-> rune, data |-> NoData, addr |-> NilAddr, err |-> "nil"]
udpMsg(data, addr) == [type |-> "udpMsg", key |-> "", rune |-> "", data |-> data, addr |-> addr, err |-> "nil"]
errMsg(e) == [type |-> "errMsg", key |-> "", rune |-> "", data |-> NoData, addr |-> NilAddr, err |-> e]
QuitMsg == [type |-> "QuitMsg", key |-> "", rune |-> "", data |-> NoData, addr |-> NilAddr, err |-> "nil"]

Runes == {"a", " "}
Keys == {KeyMsg("KeyEsc", ""), KeyMsg("KeyCtrlC", ""), KeyMsg("KeyEnter", "")}
        \cup {KeyMsg("KeyRunes", r) : r \in Runes}

\* ------------------------------------------------------------ datagrams
\* The number of bytes of a token of wire data.
ByteLen(tok) ==
    IF tok = "sp1000" THEN 1000
    ELSE IF tok = "sender" THEN 6
    ELSE IF tok = "text" THEN 4
    ELSE IF tok = "timestamp" THEN 9
    ELSE IF tok = "null" THEN 4
    ELSE IF tok = "ufffd" THEN 5
    ELSE IF tok = "uFFFD" THEN 3
    ELSE IF \E i \in 1..Len(DateStr) : tok = DateStr[i] THEN 10
    ELSE IF \E i \in 1..Len(ClockStr) : tok = ClockStr[i] THEN 8
    ELSE 1

\* The first room bytes of w.  A run of spaces that is cut leaves spaces;
\* any other token that is cut leaves the fragment "cut".
RECURSIVE FirstBytes(_, _)
FirstBytes(w, room) ==
    IF w = <<>> \/ room = 0 THEN <<>>
    ELSE IF ByteLen(Head(w)) <= room
        THEN <<Head(w)>> \o FirstBytes(Tail(w), room - ByteLen(Head(w)))
    ELSE IF Head(w) = "sp1000" THEN <<" ">>
    ELSE <<"cut">>

ReadIntoWhole(datagram) == datagram

\* buf := make([]byte, 1024); n, addr, err := conn.ReadFromUDP(buf); buf[:n]
ReadInto(datagram) == FirstBytes(datagram, BufSize)

BobHi == Marshal(msgPacket(<<"b">>, <<"h">>, [day |-> 1, sec |-> 0]))

Peer == [IP |-> "10.0.0.2", Port |-> port]
Stranger == [IP |-> "10.0.0.9", Port |-> 4000]

\* The datagrams that may arrive on the socket, and where they come from.
Inbound ==
    { [data |-> BobHi, from |-> Peer],
      [data |-> BobHi, from |-> Stranger],
      [data |-> <<"{", "}">>, from |-> Stranger],
      [data |-> <<"sp1000">> \o BobHi, from |-> Peer] }

\* What ReadFromUDP leaves in buf[:n] for each of these datagrams.
Received == [d \in Inbound |-> ReadInto(d.data)]

\* ----------------------------------------------------------------- Init
\* The state when p.Run() starts the program on initialModel(...): the
\* command of Init() is running.
Init ==
    /\ \E args \in Args :
         \E r \in ResolveUDPAddr(HostPort(args[2], port)), l \in ListenUDP :
            m = initialModel(args[1], args[2], r, l)
    /\ armed = 1
    /\ msgs = {}
    /\ sent = <<>>
    /\ sendErr = FALSE
    /\ status = "running"
    /\ last = "none"
    /\ handled = <<>>
    /\ probe = NoProbe

\* ------------------------------------------------------ textarea.Update
\* A textarea that is not focused ignores every message; a focused one
\* inserts a typed rune up to CharLimit.
TextareaUpdate(ta, msg) ==
    IF ~ta.focus \/ msg.type # "KeyMsg" THEN ta
    ELSE IF msg.key = "KeyRunes" /\ Len(ta.value) < CharLimit
        THEN [ta EXCEPT !.value = Append(@, msg.rune)]
    ELSE ta

TextareaResetKeep(ta) == ta

\* textarea.Reset()
TextareaReset(ta) == [ta EXCEPT !.value = <<>>]

\* ------------------------------------------------------ conn.WriteToUDP
\* The possible outcomes of m.conn.WriteToUDP(data, addr): a nil conn or a
\* nil address is an error; otherwise the datagram leaves or the send fails.
WriteToUDP(conn, r) ==
    IF conn = "nil" \/ r.err THEN {FALSE} ELSE {TRUE, FALSE}

\* --------------------------------------------------------- model.Update
IsQuitKey(msg) == msg.type = "KeyMsg" /\ msg.key \in {"KeyCtrlC", "KeyEsc"}
IsEnter(msg) == msg.type = "KeyMsg" /\ msg.key = "KeyEnter"

UpdateCmdNoRearm(msg) ==
    IF IsQuitKey(msg) THEN "Quit"
    ELSE IF msg.type = "udpMsg" THEN "nil"
    ELSE IF msg.type = "errMsg" THEN "nil"
    ELSE "Batch"

UpdateCmdRearmOnError(msg) ==
    IF IsQuitKey(msg) THEN "Quit"
    ELSE IF msg.type = "udpMsg" THEN "listenForMessages"
    ELSE IF msg.type = "errMsg" THEN "listenForMessages"
    ELSE "Batch"

UpdateCmdRearmAlways(msg) ==
    IF IsQuitKey(msg) THEN "Quit"
    ELSE IF msg.type = "udpMsg" THEN "listenForMessages"
    ELSE IF msg.type = "errMsg" THEN "nil"
    ELSE "listenForMessages"

\* The command Update returns for a message.
UpdateCmd(msg) ==
    IF IsQuitKey(msg) THEN "Quit"
    ELSE IF msg.type = "udpMsg" THEN "listenForMessages"
    ELSE IF msg.type = "errMsg" THEN "nil"
    ELSE "Batch"

\* The text a submit sends: strings.TrimSpace(m.textarea.Value()).
SubmitText(ta) == TrimSpace(ta.value)

UpdateModelPeerOnly(mm, msg, t) ==
    LET ta == TextareaUpdate(mm.textarea, msg) IN
    IF IsQuitKey(msg) THEN [mm EXCEPT !.textarea = ta]
    ELSE IF IsEnter(msg) THEN
        LET text == SubmitText(ta) IN
        IF text # <<>> THEN
            LET packet == msgPacket(mm.username, text, t)
                messages == AppendLine(mm.messages, Line("usernameStyle", packet))
            IN [mm EXCEPT !.messages = messages, !.viewport = messages,
                          !.textarea = TextareaReset(ta)]
        ELSE [mm EXCEPT !.textarea = ta]
    ELSE IF msg.type = "udpMsg" THEN
        LET u == Unmarshal(msg.data) IN
        IF ~u.err /\ AddrString(msg.addr) = mm.remoteAddr THEN
            LET messages == AppendLine(mm.messages, Line("remoteUsernameStyle", u.packet))
            IN [mm EXCEPT !.messages = messages, !.viewport = messages, !.textarea = ta]
        ELSE [mm EXCEPT !.textarea = ta]
    ELSE IF msg.type = "errMsg" THEN [mm EXCEPT !.textarea = ta, !.err = msg.err]
    ELSE [mm EXCEPT !.textarea = ta]

\* The model Update returns for msg, when the clock reads t.
UpdateModel(mm, msg, t) ==
    LET ta == TextareaUpdate(mm.textarea, msg) IN
    IF IsQuitKey(msg) THEN [mm EXCEPT !.textarea = ta]
    ELSE IF IsEnter(msg) THEN
        LET text == SubmitText(ta) IN
        IF text # <<>> THEN
            LET packet == msgPacket(mm.username, text, t)
                messages == AppendLine(mm.messages, Line("usernameStyle", packet))
            IN [mm EXCEPT !.messages = messages, !.viewport = messages,
                          !.textarea = TextareaReset(ta)]
        ELSE [mm EXCEPT !.textarea = ta]
    ELSE IF msg.type = "udpMsg" THEN
        LET u == Unmarshal(msg.data) IN
        IF ~u.err THEN
            LET messages == AppendLine(mm.messages, Line("remoteUsernameStyle", u.packet))
            IN [mm EXCEPT !.messages = messages, !.viewport = messages, !.textarea = ta]
        ELSE [mm EXCEPT !.textarea = ta]
    ELSE IF msg.type = "errMsg" THEN [mm EXCEPT !.textarea = ta, !.err = msg.err]
    ELSE [mm EXCEPT !.textarea = ta]

UpdateSendsUnlessErr(mm, msg, t) ==
    IF mm.err = "nil" /\ IsEnter(msg) /\ SubmitText(TextareaUpdate(mm.textarea, msg)) # <<>> THEN
        LET packet == msgPacket(mm.username, SubmitText(TextareaUpdate(mm.textarea, msg)), t)
            data == Marshal(packet)
        IN { [calls |-> <<[data |-> data, addr |-> ro[1].addr]>>, failed |-> ~ro[2]] :
                ro \in { x \in ResolveUDPAddr(mm.remoteAddr) \X BOOLEAN :
                            x[2] \in WriteToUDP(mm.conn, x[1]) } }
    ELSE { [calls |-> <<>>, failed |-> sendErr] }

\* The WriteToUDP calls Update makes for msg, each with the error it may
\* return: one call for a submit of a text that is not empty after trimming,
\* to the address m.remoteAddr resolves to.
UpdateSends(mm, msg, t) ==
    IF IsEnter(msg) /\ SubmitText(TextareaUpdate(mm.textarea, msg)) # <<>> THEN
        LET packet == msgPacket(mm.username, SubmitText(TextareaUpdate(mm.textarea, msg)), t)
            data == Marshal(packet)
        IN { [calls |-> <<[data |-> data, addr |-> ro[1].addr]>>, failed |-> ~ro[2]] :
                ro \in { x \in ResolveUDPAddr(mm.remoteAddr) \X BOOLEAN :
                            x[2] \in WriteToUDP(mm.conn, x[1]) } }
    ELSE { [calls |-> <<>>, failed |-> sendErr] }

AfterWriteKeepsErr(mm, w) ==
    IF w.calls # <<>> /\ w.failed THEN [mm EXCEPT !.err = "send"] ELSE mm

\* m.conn.WriteToUDP(data, addr) is a statement: the count and the error it
\* returns are dropped, and the model goes on as Update built it.
AfterWrite(mm, w) == mm

\* What Update adds to the record of handled messages: a submit that sent
\* (with the packet its datagram decodes to) or a datagram that decoded
\* (with its packet).
Handles(msg, w) ==
    IF IsEnter(msg) /\ w.calls # <<>>
        THEN <<[type |-> "KeyMsg", packet |-> Unmarshal(w.calls[1].data).packet]>>
    ELSE IF msg.type = "udpMsg" /\ ~Unmarshal(msg.data).err
        THEN <<[type |-> "udpMsg", packet |-> Unmarshal(msg.data).packet]>>
    ELSE <<>>

\* The case of Update's switch that handles msg.
MsgKind(msg) ==
    IF IsQuitKey(msg) THEN "quit"
    ELSE IF IsEnter(msg) THEN "enter"
    ELSE IF msg.type = "KeyMsg" THEN "key"
    ELSE msg.type

\* One pass of the event loop: Update(msg), then the returned command is
\* started.  rest is what is left of msgs once msg is taken.
Update(msg, rest) ==
    /\ status = "running"
    /\ \E w \in UpdateSends(m, msg, Now) :
          /\ m' = AfterWrite(UpdateModel(m, msg, Now), w)
          /\ sent' = sent \o w.calls
          /\ sendErr' = w.failed
          /\ handled' = handled \o Handles(msg, w)
    /\ Len(m'.messages) <= MaxLines
    /\ Len(m'.textarea.value) <= MaxInput
    /\ armed' = IF UpdateCmd(msg) = "listenForMessages" THEN armed + 1 ELSE armed
    /\ msgs' = IF UpdateCmd(msg) = "Quit" THEN rest \cup {QuitMsg} ELSE rest
    /\ last' = MsgKind(msg)
    /\ UNCHANGED <<status, probe>>

\* A key read from the terminal reaches Update.
Key(k) == Update(k, msgs)

\* A message returned by a command reaches Update.
Deliver(msg) ==
    /\ msg \in msgs
    /\ msg.type # "QuitMsg"
    /\ Update(msg, msgs \ {msg})

\* The event loop takes a QuitMsg: p.Run() returns nil and main returns.
Quit ==
    /\ status = "running"
    /\ QuitMsg \in msgs
    /\ status' = "exit0"
    /\ UNCHANGED <<m, armed, msgs, sent, sendErr, last, handled, probe>>

\* ---------------------------------------------------- listenForMessages
\* conn.ReadFromUDP returns in a command that was blocked in it: with an
\* error at once on a nil conn, otherwise with a datagram or with an error.
ReceiveError ==
    /\ status = "running"
    /\ armed > 0
    /\ armed' = armed - 1
    /\ msgs' = msgs \cup {errMsg(IF m.conn = "nil" THEN "EINVAL" ELSE "recv")}
    /\ UNCHANGED <<m, sent, sendErr, status, last, handled, probe>>

ReceiveDatagram(d) ==
    /\ status = "running"
    /\ armed > 0
    /\ m.conn # "nil"
    /\ armed' = armed - 1
    /\ msgs' = msgs \cup {udpMsg(Received[d], d.from)}
    /\ UNCHANGED <<m, sent, sendErr, status, last, handled, probe>>

Next ==
    \/ \E k \in Keys : Key(k)
    \/ \E msg \in msgs : Deliver(msg)
    \/ Quit
    \/ ReceiveError
    \/ \E d \in Inbound : ReceiveDatagram(d)

Spec == Init /\ [][Next]_vars

\* ------------------------------------------------------ controller state
StartFailed == m.conn = "nil"
Running == status = "running" /\ ~StartFailed /\ QuitMsg \notin msgs
Terminating == status = "running" /\ QuitMsg \in msgs

TypeOK ==
    /\ armed \in 0..1
    /\ Len(m.messages) <= MaxLines
    /\ status \in {"running", "exit0"}

\* ------------------------------------------------------------ the codec
\* Encode is json.Marshal of a msgPacket and Decode is json.Unmarshal into
\* one.  CodecSpec applies them, one after the other, to a probe message.
ProbeChars == {"a", " ", "\"", "xFF", "uFFFD"}
ProbeStrings == UNION {[1..n -> ProbeChars] : n \in 0..MaxProbe}
ProbeMessages ==
    {msgPacket(s, t, ts) : s \in ProbeStrings, t \in ProbeStrings \ {<<>>}, ts \in Times}

InitCodec ==
    /\ m = ErrModel("nil")
    /\ armed = 0
    /\ msgs = {}
    /\ sent = <<>>
    /\ sendErr = FALSE
    /\ status = "codec"
    /\ last = "none"
    /\ handled = <<>>
    /\ \E p \in ProbeMessages : probe = [NoProbe EXCEPT !.stage = "in", !.in = p]

EncodeProbe ==
    /\ probe.stage = "in"
    /\ probe' = [probe EXCEPT !.stage = "wire", !.wire = Marshal(probe.in)]
    /\ UNCHANGED <<m, armed, msgs, sent, sendErr, status, last, handled>>

DecodeProbe ==
    /\ probe.stage = "wire"
    /\ LET u == Unmarshal(probe.wire) IN
         probe' = [probe EXCEPT !.stage = "out", !.out = u.packet, !.err = u.err]
    /\ UNCHANGED <<m, armed, msgs, sent, sendErr, status, last, handled>>

NextCodec == EncodeProbe \/ DecodeProbe

CodecSpec == InitCodec /\ [][NextCodec]_vars

\* ================================================================ claims
AllSpaces(s) == \A i \in 1..Len(s) : s[i] = " "

\* t is s without its leading and trailing spaces.
IsTrimOf(t, s) ==
    /\ t # <<>> => t[1] # " " /\ t[Len(t)] # " "
    /\ \E i \in 0..Len(s) :
          /\ i + Len(t) <= Len(s)
          /\ t = SubSeq(s, i + 1, i + Len(t))
          /\ AllSpaces(SubSeq(s, 1, i))
          /\ AllSpaces(SubSeq(s, i + Len(t) + 1, Len(s)))

ValidUTF8(s) == \A i \in 1..Len(s) : s[i] # "xFF"
ToValidUTF8(s) == [i \in 1..Len(s) |-> IF s[i] = "xFF" THEN "uFFFD" ELSE s[i]]

\* The last WriteToUDP call, decoded.
LastSent(q) == Unmarshal(q[Len(q)].data)

\* A submit of a buffer that is not empty once trimmed, handled in Running.
SubmitStep(k) ==
    /\ Running
    /\ IsEnter(k)
    /\ ~AllSpaces(m.textarea.value)
    /\ last' = "enter"
    /\ Key(k)

\* C1 as stated: every submit in Running of a buffer that is not empty after
\* trimming makes exactly one WriteToUDP call, and the datagram decodes to
\* the trimmed buffer as text and to the configured username as sender.
C1_AsStated ==
    [][\A k \in Keys : SubmitStep(k) =>
          /\ Len(sent') = Len(sent) + 1
          /\ ~LastSent(sent').err
          /\ IsTrimOf(LastSent(sent').packet.Text, m.textarea.value)
          /\ LastSent(sent').packet.Sender = m.username]_vars

\* C1 amended: the same, with the sender equal to the username in which
\* every byte that is not valid UTF-8 is replaced by U+FFFD (so equal to
\* the username whenever the username is valid UTF-8).
C1_Submit ==
    [][\A k \in Keys : SubmitStep(k) =>
          /\ Len(sent') = Len(sent) + 1
          /\ SubSeq(sent', 1, Len(sent)) = sent
          /\ ~LastSent(sent').err
          /\ IsTrimOf(LastSent(sent').packet.Text, m.textarea.value)
          /\ LastSent(sent').packet.Sender = ToValidUTF8(m.username)
          /\ ValidUTF8(m.username) => LastSent(sent').packet.Sender = m.username]_vars

C1_Witness ==
    /\ Running
    /\ last = "enter"
    /\ Len(sent) = 1
    /\ m.username = <<"a">>
    /\ LastSent(sent).packet = msgPacket(<<"a">>, <<"a">>, Now)

\* C2: a submit in Running of an empty or whitespace-only buffer makes no
\* WriteToUDP call, leaves the transcript as it was, and stays Running.
C2_EmptySubmit ==
    [][\A k \in Keys :
          (Running /\ IsEnter(k) /\ AllSpaces(m.textarea.value) /\ Key(k)) =>
              /\ sent' = sent
              /\ m'.messages = m.messages
              /\ Running']_vars

C2_Witness ==
    /\ Running
    /\ last = "enter"
    /\ m.textarea.value = <<" ">>
    /\ sent = <<>>
    /\ m.messages = <<>>

\* C3: the transcript is append-only: every step keeps each line at its
\* index and never shortens the transcript.
C3_AppendOnly ==
    [][/\ Len(m'.messages) >= Len(m.messages)
       /\ SubSeq(m'.messages, 1, Len(m.messages)) = m.messages]_vars

IsRemoteLine(line) == line[2].style = "remoteUsernameStyle"
RemoteLines(messages) == {i \in 1..Len(messages) : IsRemoteLine(messages[i])}

C3_Witness ==
    /\ Len(m.messages) >= 2
    /\ ~IsRemoteLine(m.messages[1])
    /\ IsRemoteLine(m.messages[2])
    /\ status = "exit0"

\* A receive is outstanding on the socket: ReceiveDatagram is enabled.
CanReceive == status = "running" /\ armed > 0 /\ m.conn # "nil"

\* C4: a datagram that fails to decode, handled in Running, adds no line,
\* leaves lastError alone, stays Running and re-arms the receive.
C4_MalformedDropped ==
    [][\A msg \in msgs :
          (Running /\ msg.type = "udpMsg" /\ Unmarshal(msg.data).err /\ Deliver(msg)) =>
              /\ m'.messages = m.messages
              /\ m'.err = m.err
              /\ Running'
              /\ armed' = armed + 1
              /\ CanReceive']_vars

C4_Witness ==
    /\ Running
    /\ last = "udpMsg"
    /\ m.messages = <<>>
    /\ m.err = "nil"
    /\ armed = 1

\* C5: a datagram that decodes, handled in Running, appends exactly one
\* line in the remote style made of the time of day of the payload's
\* timestamp, its sender and its text, and re-arms the receive; the
\* datagram of bob saying h at 00:00:00 gives the line 00:00:00 b: h.
C5_RemoteAppended ==
    [][\A msg \in msgs :
          (Running /\ msg.type = "udpMsg" /\ ~Unmarshal(msg.data).err /\ Deliver(msg)) =>
              LET p == Unmarshal(msg.data).packet IN
              /\ m'.messages = Append(m.messages,
                     <<[style |-> "timestampStyle", s |-> ClockStr[p.Timestamp.sec + 1]],
                       [style |-> "remoteUsernameStyle", s |-> p.Sender],
                       [style |-> "messageStyle", s |-> p.Text]>>)
              /\ msg.data = BobHi =>
                     m'.messages[Len(m'.messages)] =
                         <<[style |-> "timestampStyle", s |-> "00:00:00"],
                           [style |-> "remoteUsernameStyle", s |-> <<"b">>],
                           [style |-> "messageStyle", s |-> <<"h">>]>>
              /\ armed' = armed + 1
              /\ CanReceive'
              /\ Running']_vars

\* Two datagrams were received one after the other and both are lines.
C5_Witness ==
    /\ Running
    /\ last = "udpMsg"
    /\ Len(m.messages) = 2
    /\ IsRemoteLine(m.messages[1])
    /\ IsRemoteLine(m.messages[2])
    /\ m.messages[2][2].s = <<"b">>
    /\ armed = 1

\* C6 as stated: a quit key handled in Running leaves the controller in
\* Terminating, and from then on no step changes the transcript, the input
\* buffer or lastError, or makes a WriteToUDP call.
C6_AsStated ==
    /\ [][\A k \in Keys : (Running /\ IsQuitKey(k) /\ Key(k)) => Terminating']_vars
    /\ [][Terminating =>
            /\ m'.messages = m.messages
            /\ m'.textarea = m.textarea
            /\ m'.err = m.err
            /\ sent' = sent]_vars

\* C7 as stated: when the peer address does not resolve or the socket does
\* not bind, no message ever reaches Update and the process does not end
\* with exit code 0.
C7_AsStated == StartFailed => (last = "none" /\ status # "exit0")

\* C8: a transport error handled in Running is recorded in lastError, keeps
\* the controller Running and starts no receive; and once lastError is set
\* no receive is outstanding, no datagram waits for Update and no step adds
\* a remote line.
C8_ErrorStopsListening ==
    /\ [][\A msg \in msgs :
            (Running /\ msg.type = "errMsg" /\ Deliver(msg)) =>
                /\ m'.err = msg.err
                /\ m'.err # "nil"
                /\ Running'
                /\ armed' = armed
                /\ ~CanReceive'
                /\ m'.messages = m.messages]_vars
    /\ [][(~StartFailed /\ m.err # "nil") =>
            /\ armed' = 0
            /\ \A x \in msgs' : x.type # "udpMsg"
            /\ RemoteLines(m'.messages) = RemoteLines(m.messages)]_vars

\* The error was recorded after a datagram had been appended, and a submit
\* was handled after it.
C8_Witness ==
    /\ Running
    /\ m.err = "recv"
    /\ armed = 0
    /\ Len(m.messages) = 2
    /\ IsRemoteLine(m.messages[1])
    /\ ~IsRemoteLine(m.messages[2])

\* C9 as stated: decoding the encoding of a message with a text that is
\* not empty succeeds and gives the message back.
C9_AsStated ==
    probe.stage = "out" => (~probe.err /\ probe.out = probe.in)

\* C9 amended: decoding the encoding of a message succeeds and gives the
\* sender and text with every byte that is not valid UTF-8 replaced by
\* U+FFFD, and the same timestamp; so it gives the message back whenever
\* its sender and text are valid UTF-8.
C9_RoundTrip ==
    probe.stage = "out" =>
        /\ ~probe.err
        /\ probe.out = msgPacket(ToValidUTF8(probe.in.Sender), ToValidUTF8(probe.in.Text),
                                 probe.in.Timestamp)
        /\ (ValidUTF8(probe.in.Sender) /\ ValidUTF8(probe.in.Text)) => probe.out = probe.in

C9_Witness ==
    /\ probe.stage = "out"
    /\ probe.in = msgPacket(<<"a", "\"">>, <<" ", "uFFFD">>, [day |-> 2, sec |-> 1])
    /\ probe.out = probe.in

\* C10: no step changes m.remoteAddr, and every WriteToUDP call is made to
\* the address m.remoteAddr was given at startup, so all to one address.
C10_PeerFixed ==
    /\ [][m'.remoteAddr = m.remoteAddr]_vars
    /\ [](\A i \in 1..Len(sent) :
            /\ AddrString(sent[i].addr) = m.remoteAddr
            /\ sent[i].addr = sent[1].addr
            /\ sent[i].addr.Port = port)

C10_Witness ==
    /\ Len(sent) = 2
    /\ ~sendErr
    /\ sent[1].data # sent[2].data
    /\ m.remoteAddr = <<"10.0.0.3", ":", "9999">>

\* C11: a submit of a buffer that is not all spaces, handled while Running,
\* appends one line at the end of the transcript: the clock time of the
\* timestamp that was sent, the username in the local style, and the
\* trimmed text; it empties the buffer and leaves the controller Running.
C11_LocalAppended ==
    [][\A k \in Keys :
          SubmitStep(k) =>
              LET p == LastSent(sent').packet
                  n == Len(m.messages) + 1
              IN /\ Len(m'.messages) = n
                 /\ SubSeq(m'.messages, 1, n - 1) = m.messages
                 /\ m'.messages[n][1] = [style |-> "timestampStyle", s |-> ClockStr[p.Timestamp.sec + 1]]
                 /\ m'.messages[n][2] = [style |-> "usernameStyle", s |-> m.username]
                 /\ m'.messages[n][3].style = "messageStyle"
                 /\ IsTrimOf(m'.messages[n][3].s, m.textarea.value)
                 /\ m'.messages[n][3].s = p.Text
                 /\ m'.textarea.value = <<>>
                 /\ Running']_vars

C11_Witness ==
    /\ Running
    /\ last = "enter"
    /\ m.textarea.value = <<>>
    /\ Len(m.messages) = 2
    /\ IsRemoteLine(m.messages[1])
    /\ m.messages[2] = <<[style |-> "timestampStyle", s |-> "00:00:01"],
                         [style |-> "usernameStyle", s |-> <<"xFF">>],
                         [style |-> "messageStyle", s |-> <<"a">>]>>

\* C12, as stated: once a quit key has been handled, no ReadFromUDP that was
\* pending returns a datagram any more.
C12_AsStated ==
    [][(Terminating \/ status = "exit0") => ~(\E d \in Inbound : ReceiveDatagram(d))]_vars

\* C13, as stated: no line of the transcript has an empty text.
C13_AsStated == \A i \in 1..Len(m.messages) : m.messages[i][3].s # <<>>

\* The line Update shows for handled message e: a remote line decoded from
\* the datagram, or a local line with the text and the time that were sent.
LineOf(e) ==
    LET p == e.packet IN
    <<[style |-> "timestampStyle", s |-> ClockStr[p.Timestamp.sec + 1]],
      IF e.type = "udpMsg" THEN [style |-> "remoteUsernameStyle", s |-> p.Sender]
                           ELSE [style |-> "usernameStyle", s |-> m.username],
      [style |-> "messageStyle", s |-> p.Text]>>

\* C14: every step hands at most one message to Update, and the transcript
\* holds, line for line and in the same order, the lines of the submits and
\* datagrams in the order in which Update handled them.
C14_TranscriptOrder ==
    /\ [](/\ Len(m.messages) = Len(handled)
          /\ \A i \in 1..Len(handled) : m.messages[i] = LineOf(handled[i]))
    /\ [][Len(handled') <= Len(handled) + 1]_vars

C14_Witness ==
    /\ Len(handled) = 2
    /\ handled[1].type = "KeyMsg"
    /\ handled[2].type = "udpMsg"
    /\ m.messages[1][1].s = "00:00:01"
    /\ m.messages[2][1].s = "00:00:00"

\* C15: when the WriteToUDP call of a submit returns an error, the
\* controller stays Running, m.err keeps its value, the local line is
\* appended and the buffer is emptied, as when the call succeeds.
C15_SendErrorDropped ==
    [][\A k \in Keys :
          (SubmitStep(k) /\ sendErr') =>
              /\ Running'
              /\ status' = "running"
              /\ m'.err = m.err
              /\ Len(sent') = Len(sent) + 1
              /\ Len(m'.messages) = Len(m.messages) + 1
              /\ SubSeq(m'.messages, 1, Len(m.messages)) = m.messages
              /\ m'.messages[Len(m'.messages)] =
                    <<[style |-> "timestampStyle", s |-> "00:00:01"],
                      [style |-> "usernameStyle", s |-> m.username],
                      [style |-> "messageStyle", s |-> LastSent(sent').packet.Text]>>
              /\ m'.textarea.value = <<>>]_vars

C15_Witness ==
    /\ Running
    /\ last = "enter"
    /\ sendErr
    /\ m.err = "nil"
    /\ Len(sent) = 1
    /\ Len(m.messages) = 1
    /\ ~IsRemoteLine(m.messages[1])
    /\ m.textarea.value = <<>>

\* The number of bytes of wire data w.
RECURSIVE SumBytes(_)
SumBytes(w) == IF w = <<>> THEN 0 ELSE ByteLen(Head(w)) + SumBytes(Tail(w))

\* C16: a datagram read from the socket becomes exactly one udpMsg, and the
\* read is over; the udpMsg holds the whole datagram when it has at most
\* 1024 bytes and only its first 1024 bytes otherwise.
C16_Truncated ==
    [][\A d \in Inbound :
          (/\ armed' < armed
           /\ \E x \in msgs' \ msgs : x.type = "udpMsg" /\ x.addr = d.from
           /\ ReceiveDatagram(d)) =>
              LET n == SumBytes(d.data) IN
              /\ armed' = 0
              /\ \E x \in msgs' \ msgs :
                    /\ msgs' = msgs \cup {x}
                    /\ x.type = "udpMsg"
                    /\ SumBytes(x.data) = IF n < 1024 THEN n ELSE 1024
                    /\ Len(x.data) <= Len(d.data)
                    /\ \A i \in 1..Len(x.data) :
                          \/ x.data[i] = d.data[i]
                          \/ i = Len(x.data) /\ n > 1024]_vars

C16_Witness ==
    \E x \in msgs :
        /\ x.type = "udpMsg"
        /\ SumBytes(x.data) = 1024
        /\ x.data[1] = "sp1000"
        /\ Unmarshal(x.data).err

\* C17: never more than one listenForMessages command is blocked in
\* ReadFromUDP; and while the controller is Running and no errMsg has been
\* produced, either one is blocked or one udpMsg waits for Update, not both.
C17_OneReceive ==
    /\ armed \in {0, 1}
    /\ (Running /\ m.err = "nil" /\ ~(\E x \in msgs : x.type = "errMsg")) =>
          armed + Cardinality({x \in msgs : x.type = "udpMsg"}) = 1

C17_Witness ==
    /\ Running
    /\ m.err = "nil"
    /\ armed = 0
    /\ \E x \in msgs : x.type = "udpMsg"
    /\ Len(m.messages) = 1
    /\ IsRemoteLine(m.messages[1])

\* C18: the step Update takes for a udpMsg is the step it takes for the
\* same data from any other sender address: the same model, the same
\* command, the same sends.  A datagram that decodes is appended as a
\* remote line whatever its sender address is.
C18_AddrIgnored ==
    [][\A msg \in msgs :
          (msg.type = "udpMsg" /\ msg \notin msgs' /\ Deliver(msg)) =>
              /\ \A a \in {Peer, Stranger, NilAddr} :
                    LET alt == [msg EXCEPT !.addr = a] IN
                    /\ m' = UpdateModel(m, alt, Now)
                    /\ UpdateCmd(alt) = UpdateCmd(msg)
                    /\ UpdateSends(m, alt, Now) = UpdateSends(m, msg, Now)
              /\ ~Unmarshal(msg.data).err =>
                    /\ Len(m'.messages) = Len(m.messages) + 1
                    /\ IsRemoteLine(m'.messages[Len(m'.messages)])
              /\ m'.err = m.err
              /\ m'.textarea = m.textarea]_vars

C18_Witness ==
    /\ last = "udpMsg"
    /\ Len(m.messages) = 2
    /\ m.messages[1] = <<[style |-> "timestampStyle", s |-> "00:00:00"],
                         [style |-> "remoteUsernameStyle", s |-> <<"b">>],
                         [style |-> "messageStyle", s |-> <<"h">>]>>
    /\ m.messages[2] = <<[style |-> "timestampStyle", s |-> "00:00:00"],
                         [style |-> "remoteUsernameStyle", s |-> <<>>],
                         [style |-> "messageStyle", s |-> <<>>]>>

\* C19: once m.err is set no step sets it back to nil; and a submit of a
\* buffer that is not all spaces, handled after that, still makes one
\* WriteToUDP call to the peer and appends one local line.
C19_DegradedOutbound ==
    /\ [][m.err # "nil" => m'.err # "nil"]_vars
    /\ [][\A k \in Keys :
            (SubmitStep(k) /\ m.err # "nil") =>
                /\ Len(sent') = Len(sent) + 1
                /\ AddrString(sent'[Len(sent')].addr) = m.remoteAddr
                /\ IsTrimOf(LastSent(sent').packet.Text, m.textarea.value)
                /\ Len(m'.messages) = Len(m.messages) + 1
                /\ SubSeq(m'.messages, 1, Len(m.messages)) = m.messages
                /\ m'.messages[Len(m'.messages)][2] = [style |-> "usernameStyle", s |-> m.username]
                /\ m'.messages[Len(m'.messages)][3].s = LastSent(sent').packet.Text
                /\ m'.err = m.err]_vars

C19_Witness ==
    /\ Running
    /\ m.err = "recv"
    /\ armed = 0
    /\ last = "enter"
    /\ Len(sent) = 1
    /\ ~sendErr
    /\ Len(m.messages) = 1
    /\ ~IsRemoteLine(m.messages[1])

====
